---- MODULE Spec2Model ----
(***************************************************************************)
(* Engine state machine and safety supervisor of the genset panel sketch   *)
(* (Genset_Panel.ino).  The sketch is single threaded; every blocking      *)
(* delay() is a step boundary of the model, because the millisecond clock  *)
(* advances there and the tacho interrupt may refresh gEngineRpm.          *)
(*                                                                         *)
(* Integer widths follow the AVR target of the sketch: int is 16 bits,     *)
(* unsigned long is 32 bits.  Voltages are held in tenths of a volt.       *)
(***************************************************************************)
EXTENDS Integers, Sequences, FiniteSets, TLC

(**************************** model bounds *********************************)
\* Largest value of millis() the model follows.
MaxMillis == 66000
\* Time that passes in one idle pass of loop().
LoopTick == 22000
\* Number of beeps the model follows one alarm loop for.
MaxBeeps == 1
\* Work loop() takes up after setup(): a start or stop request counts 2, a
\* supervision step 1; the model follows loop() until the work is used up.
MaxWork == 2

(************************* configuration parameters ***********************)
START_RETRIES == 3
START_RETRY_REST == 15000
START_OIL_P_PERIOD == 15000
START_GLOW_PERIOD == 6000
START_CRANK_TIME == 15000
SHUTDOWN_DELAY == 15000
SHUTDOWN_WAIT == 5000
WARMUP_PERIOD == 180000
MIN_COOLANT_TEMP == 71
MAX_COOLANT_TEMP == 110
MAX_OIL_TEMP == 120
MIN_OIL_PRESSURE == 200
ENGINE_IDLE_RPM == 1000
\* 12.2 V, in tenths of a volt
MIN_BATT_V == 122
\* delay(200): the poll interval of the crank, shutdown and alarm loops
POLL_DELAY == 200

(******************************** IO pins *********************************)
FUEL_SOLENOID_PORT == 7
COOLANT_PUMP_PORT == 8
ALTERNATATOR_LOAD_PORT == 9
GLOW_PLUG_PORT == 11
STARTER_PORT == 12
BUZZER_PORT == 13

OutputPorts == {FUEL_SOLENOID_PORT, COOLANT_PUMP_PORT, ALTERNATATOR_LOAD_PORT,
                GLOW_PLUG_PORT, STARTER_PORT, BUZZER_PORT}

LOW == "LOW"
HIGH == "HIGH"
\* level of a pin before setup() has configured it
INPUT == "INPUT"
S_ON == LOW
S_OFF == HIGH

(******************************* error codes ******************************)
E_ALREADY_RUNNING == 1
E_COOLANT_TEMP_HIGH == 2
E_OIL_TEMP_HIGH == 6
E_BATTERY_LOW == 8
E_LOW_OIL_RPRESSURE == 22

(****************************** engine states *****************************)
S_ENGINE_STOPPED == 0
S_ENGINE_RUNNING == 1
S_ENGINE_STARTING == 2
S_ENGINE_WARMUP == 4
S_ENGINE_FAULT == 296

(************************** C integer arithmetic **************************)
RECURSIVE BitAnd(_, _)
BitAnd(a, b) ==
  IF a = 0 \/ b = 0 THEN 0
  ELSE (a % 2) * (b % 2) + 2 * BitAnd(a \div 2, b \div 2)

RECURSIVE BitXor(_, _)
BitXor(a, b) ==
  IF a = 0 THEN b
  ELSE IF b = 0 THEN a
  ELSE (((a % 2) + (b % 2)) % 2) + 2 * BitXor(a \div 2, b \div 2)

\* the C operator ! on an int
LogicalNot(x) == IF x = 0 THEN 1 ELSE 0

\* unsigned long -> int (16 bit, two's complement, wrap-around)
ToInt(u) ==
  LET m == u % 65536 IN IF m >= 32768 THEN m - 65536 ELSE m

\* millis() < deadline, with deadline an int: the int is converted to
\* unsigned long, so a negative deadline becomes 2^32 + deadline, which is
\* above every clock value up to MaxMillis.
MillisBefore(t, deadline) ==
  IF deadline < 0 THEN TRUE ELSE t < deadline

(**************************** sensor value sets ***************************)
RpmValues == {0, ENGINE_IDLE_RPM}
BattValues == {0, 130}
\* what one round of analogRead() in manageEngine() may return: a healthy
\* sample with cold coolant and one with warm coolant, one sample for each
\* rule on its own, and one with all of them
AnalogSamples ==
  { [oilP |-> 250, oilT |-> 50, coolantT |-> 20, flow |-> 5],
    [oilP |-> 250, oilT |-> 50, coolantT |-> MIN_COOLANT_TEMP + 1, flow |-> 5],
    [oilP |-> 250, oilT |-> 50, coolantT |-> MAX_COOLANT_TEMP, flow |-> 5],
    [oilP |-> 250, oilT |-> MAX_OIL_TEMP, coolantT |-> 20, flow |-> 5],
    [oilP |-> 0, oilT |-> 50, coolantT |-> 20, flow |-> 5],
    [oilP |-> 0, oilT |-> MAX_OIL_TEMP, coolantT |-> MAX_COOLANT_TEMP, flow |-> 5] }

VARIABLES
  pc,               \* position of the single thread of control
  stack,            \* return positions of the calls in progress
  millis,           \* value of millis()
  port,             \* level of every output pin
  gEngineState, gStartMillis, gEngineRpm, gOilPressure, gOilTemp,
  gCoolantTemp, gCoolantFlow, gStartBattVolts, gFaultCode,
  startRetries,     \* loop variable of start()
  crankMillis,      \* local of engineStart()
  shutdownMillis,   \* local of engineImmediateStop()
  preStartCond,     \* history: a pre-start fault condition held when start() was entered
  attempts,         \* history: crank attempts made by the current start()
  idleSeen,         \* history: the rpm reached idle since the current start() was entered
  started,          \* history: the last start() saw the engine run and no fuel cut followed
  loadOffAt,        \* history: clock at the load-off command of engineStop(), -1 if none
  stopKind,         \* history: how the last stop sequence was entered
  work,             \* work loop() has taken up so far
  beeps,            \* number of beeps of the alarm loop in progress
  glowOnAt,         \* history: clock at the glow plug command of engineStart(), -1 if none
  crankAt,          \* history: clock at the starter command of engineStart(), -1 if none
  faultAtAttempt,   \* history: the first crank attempt of the current start() with a
                    \* rule condition holding at a poll, 0 if none
  fuelCutAt,        \* history: clock at the fuel cut of engineImmediateStop(), -1 if none
  runFlagAtStop,    \* history: the running flag at that fuel cut
  rpmFell           \* history: a poll of the shutdown wait read an rpm below idle
vars == <<pc, stack, millis, port, gEngineState, gStartMillis, gEngineRpm,
          gOilPressure, gOilTemp, gCoolantTemp, gCoolantFlow, gStartBattVolts,
          gFaultCode, startRetries, crankMillis, shutdownMillis,
          preStartCond, attempts, idleSeen, started, loadOffAt, stopKind,
          work, beeps, glowOnAt, crankAt, faultAtAttempt, fuelCutAt,
          runFlagAtStop, rpmFell>>

sensors == <<gOilPressure, gOilTemp, gCoolantTemp, gCoolantFlow>>
locals == <<startRetries, crankMillis, shutdownMillis>>
history == <<preStartCond, attempts, started, loadOffAt, stopKind, work>>
bookkeeping == <<history, idleSeen, beeps>>
\* history of the crank attempt and of the shutdown wait in progress
crankHistory == <<glowOnAt, crankAt>>
stopHistory == <<fuelCutAt, runFlagAtStop, rpmFell>>

\* the rpm value r is seen during a delay of start() or engineStart()
observe(r) == idleSeen' = (idleSeen \/ r >= ENGINE_IDLE_RPM)

(****************************** pure functions ****************************)
isRunning(state, rpm) ==
  IF BitAnd(state, S_ENGINE_RUNNING) # 0 THEN TRUE
  ELSE IF rpm >= ENGINE_IDLE_RPM THEN TRUE
  ELSE FALSE

\* the four rule conditions of the fault evaluator
CoolantCond(coolant) == coolant >= MAX_COOLANT_TEMP
OilTempCond(oilT) == oilT >= MAX_OIL_TEMP
BatteryCond(batt) == batt <= MIN_BATT_V
\* the oil pressure rule without the grace period
OilPressureCond_noGrace(t, start, oilP) == oilP < MIN_OIL_PRESSURE

OilPressureCond(t, start, oilP) ==
  (t > start + START_OIL_P_PERIOD) /\ (oilP < MIN_OIL_PRESSURE)

getRunFaults(t, start, coolant, oilT, batt, oilP) ==
  LET f0 == 0
      f1 == IF CoolantCond(coolant) THEN BitAnd(f0, E_COOLANT_TEMP_HIGH) ELSE f0
      f2 == IF OilTempCond(oilT) THEN BitAnd(f1, E_OIL_TEMP_HIGH) ELSE f1
      f3 == IF BatteryCond(batt) THEN BitAnd(f2, E_BATTERY_LOW) ELSE f2
      f4 == IF OilPressureCond(t, start, oilP)
            THEN BitAnd(f3, E_LOW_OIL_RPRESSURE) ELSE f3
  IN f4

getPreStartFaults(state, rpm, t, start, coolant, oilT, batt, oilP) ==
  LET f0 == 0
      f1 == IF isRunning(state, rpm) THEN BitAnd(f0, E_ALREADY_RUNNING) ELSE f0
  IN BitAnd(f1, getRunFaults(t, start, coolant, oilT, batt, oilP))

(******************************** helpers *********************************)
\* delay(ms): the clock advances and the tacho interrupt may refresh the rpm
delay(ms, rpm) ==
  /\ millis + ms <= MaxMillis
  /\ millis' = millis + ms
  /\ rpm \in RpmValues
  /\ gEngineRpm' = rpm

call(target, continuation) ==
  /\ pc' = target
  /\ stack' = Append(stack, continuation)

return ==
  /\ pc' = stack[Len(stack)]
  /\ stack' = SubSeq(stack, 1, Len(stack) - 1)

(********************************* Init ***********************************)
Init ==
  /\ pc = "setup"
  /\ stack = <<>>
  /\ millis = 0
  /\ port = [p \in OutputPorts |-> INPUT]
  /\ gEngineState = S_ENGINE_STOPPED
  /\ gStartMillis = 0
  /\ gEngineRpm = 0
  /\ gOilPressure = 0
  /\ gOilTemp = 0
  /\ gCoolantTemp = 0
  /\ gCoolantFlow = 0
  /\ gStartBattVolts = 0
  /\ gFaultCode = 0
  /\ startRetries = 0
  /\ crankMillis = 0
  /\ shutdownMillis = 0
  /\ preStartCond = FALSE
  /\ attempts = 0
  /\ idleSeen = FALSE
  /\ started = FALSE
  /\ loadOffAt = -1
  /\ stopKind = "none"
  /\ work = 0
  /\ beeps = 0
  /\ glowOnAt = -1
  /\ crankAt = -1
  /\ faultAtAttempt = 0
  /\ fuelCutAt = -1
  /\ runFlagAtStop = FALSE
  /\ rpmFell = FALSE

(******************************** setup ***********************************)
\* setup(): all relays off, buzzer silent, then start()
setup ==
  /\ pc = "setup"
  /\ port' = [p \in OutputPorts |-> IF p = BUZZER_PORT THEN LOW ELSE S_OFF]
  /\ call("start", "loop_end")
  /\ UNCHANGED <<millis, gEngineState, gStartMillis, gEngineRpm, sensors,
                 gStartBattVolts, gFaultCode, locals, history>>
  /\ UNCHANGED <<idleSeen, beeps>>
  /\ UNCHANGED <<glowOnAt, crankAt, faultAtAttempt, fuelCutAt, runFlagAtStop, rpmFell>>

(******************************** start ***********************************)
\* one of the pre-start fault conditions holds for the current sensor values
PreStartCondition ==
  \/ isRunning(gEngineState, gEngineRpm)
  \/ CoolantCond(gCoolantTemp)
  \/ OilTempCond(gOilTemp)
  \/ BatteryCond(gStartBattVolts)

\* start(): the pre-start check, then delay(200) and the head of the for loop
start_begin ==
  /\ pc = "start"
  /\ LET f == getPreStartFaults(gEngineState, gEngineRpm, millis, gStartMillis,
                                gCoolantTemp, gOilTemp, gStartBattVolts,
                                gOilPressure)
     IN /\ gFaultCode' = f
        /\ IF f # 0
           THEN /\ gEngineState' = BitAnd(gEngineState, S_ENGINE_FAULT)
                /\ return
                /\ idleSeen' = FALSE
                /\ UNCHANGED <<millis, gEngineRpm, startRetries>>
           ELSE /\ gEngineState' = S_ENGINE_STOPPED
                /\ \E r \in RpmValues :
                     /\ delay(POLL_DELAY, r)
                     /\ idleSeen' = (r >= ENGINE_IDLE_RPM)
                /\ startRetries' = START_RETRIES
                /\ pc' = "start_for"
                /\ UNCHANGED stack
  /\ preStartCond' = PreStartCondition
  /\ attempts' = 0
  /\ started' = FALSE
  /\ faultAtAttempt' = 0
  /\ UNCHANGED <<port, gStartMillis, sensors, gStartBattVolts, crankMillis,
                 shutdownMillis, loadOffAt, stopKind, work>>
  /\ UNCHANGED beeps
  /\ UNCHANGED <<glowOnAt, crankAt, fuelCutAt, runFlagAtStop, rpmFell>>

\* the test of the for loop: startRetries > 1
start_for ==
  /\ pc = "start_for"
  /\ IF startRetries > 1
     THEN /\ call("engineStart", "start_check")
          /\ UNCHANGED startRetries
     ELSE /\ pc' = "start_end"
          /\ startRetries' = 0
          /\ UNCHANGED stack
  /\ UNCHANGED <<millis, port, gEngineState, gStartMillis, gEngineRpm, sensors,
                 gStartBattVolts, gFaultCode, crankMillis, shutdownMillis,
                 history>>
  /\ UNCHANGED <<idleSeen, beeps>>
  /\ UNCHANGED <<glowOnAt, crankAt, faultAtAttempt, fuelCutAt, runFlagAtStop, rpmFell>>

\* after engineStart(): break if running, else rest and count down
start_check ==
  /\ pc = "start_check"
  /\ IF isRunning(gEngineState, gEngineRpm)
     THEN /\ pc' = "start_end"
          /\ startRetries' = 0
          /\ UNCHANGED <<stack, millis, gEngineRpm, idleSeen>>
     ELSE /\ \E r \in RpmValues : delay(START_RETRY_REST, r) /\ observe(r)
          /\ startRetries' = startRetries - 1
          /\ pc' = "start_for"
          /\ UNCHANGED stack
  /\ UNCHANGED <<port, gEngineState, gStartMillis, sensors, gStartBattVolts,
                 gFaultCode, crankMillis, shutdownMillis, history>>
  /\ UNCHANGED beeps
  /\ UNCHANGED <<glowOnAt, crankAt, faultAtAttempt, fuelCutAt, runFlagAtStop, rpmFell>>

\* the end of start(): nothing is reported, the call returns
start_end ==
  /\ pc = "start_end"
  /\ return
  /\ UNCHANGED <<millis, port, gEngineState, gStartMillis, gEngineRpm, sensors,
                 gStartBattVolts, gFaultCode, locals, history>>
  /\ UNCHANGED <<idleSeen, beeps>>
  /\ UNCHANGED <<glowOnAt, crankAt, faultAtAttempt, fuelCutAt, runFlagAtStop, rpmFell>>

(****************************** engineStart *******************************)

engineStart_buzzer ==
  /\ pc = "engineStart"
  /\ port' = [port EXCEPT ![BUZZER_PORT] = HIGH]
  /\ attempts' = attempts + 1
  /\ pc' = "engineStart_fuel"
  /\ UNCHANGED <<stack, millis, gEngineState, gStartMillis, gEngineRpm, sensors,
                 gStartBattVolts, gFaultCode, locals, preStartCond, started,
                 loadOffAt, stopKind, work>>
  /\ UNCHANGED <<idleSeen, beeps>>
  /\ UNCHANGED <<glowOnAt, crankAt, faultAtAttempt, fuelCutAt, runFlagAtStop, rpmFell>>

\* buzzer off, the starting flag, then the fuel solenoid on
engineStart_fuel ==
  /\ pc = "engineStart_fuel"
  /\ gEngineState' = BitAnd(gEngineState, S_ENGINE_STARTING)
  /\ port' = [port EXCEPT ![BUZZER_PORT] = LOW,
                          ![FUEL_SOLENOID_PORT] = S_ON]
  /\ pc' = "engineStart_glowOn"
  /\ UNCHANGED <<stack, millis, gStartMillis, gEngineRpm, sensors,
                 gStartBattVolts, gFaultCode, locals, history>>
  /\ UNCHANGED <<idleSeen, beeps>>
  /\ UNCHANGED <<glowOnAt, crankAt, faultAtAttempt, fuelCutAt, runFlagAtStop, rpmFell>>

\* the glow plugs on
engineStart_glowOn ==
  /\ pc = "engineStart_glowOn"
  /\ port' = [port EXCEPT ![GLOW_PLUG_PORT] = S_ON]
  /\ glowOnAt' = millis
  /\ pc' = "engineStart_glow"
  /\ UNCHANGED <<stack, millis, gEngineState, gStartMillis, gEngineRpm, sensors,
                 gStartBattVolts, gFaultCode, locals, history>>
  /\ UNCHANGED <<idleSeen, beeps>>
  /\ UNCHANGED <<crankAt, faultAtAttempt, fuelCutAt, runFlagAtStop, rpmFell>>

\* engineStart() without the glow plug pre-heat
engineStart_noPreheat ==
  /\ pc = "engineStart_glow"
  /\ pc' = "engineStart_starter"
  /\ UNCHANGED <<stack, millis, port, gEngineState, gStartMillis, gEngineRpm,
                 sensors, gStartBattVolts, gFaultCode, locals, history>>
  /\ UNCHANGED <<idleSeen, beeps>>
  /\ UNCHANGED <<glowOnAt, crankAt, faultAtAttempt, fuelCutAt, runFlagAtStop,
                 rpmFell>>

\* delay(START_GLOW_PERIOD)
engineStart_preheat ==
  /\ pc = "engineStart_glow"
  /\ \E r \in RpmValues : delay(START_GLOW_PERIOD, r) /\ observe(r)
  /\ pc' = "engineStart_starter"
  /\ UNCHANGED <<stack, port, gEngineState, gStartMillis, sensors,
                 gStartBattVolts, gFaultCode, locals, history>>
  /\ UNCHANGED beeps
  /\ UNCHANGED <<glowOnAt, crankAt, faultAtAttempt, fuelCutAt, runFlagAtStop, rpmFell>>

engineStart_crank ==
  /\ pc = "engineStart_starter"
  /\ port' = [port EXCEPT ![STARTER_PORT] = S_ON]
  /\ crankMillis' = ToInt(millis + START_CRANK_TIME)
  /\ crankAt' = millis
  /\ pc' = "engineStart_while"
  /\ UNCHANGED <<stack, millis, gEngineState, gStartMillis, gEngineRpm, sensors,
                 gStartBattVolts, gFaultCode, startRetries, shutdownMillis,
                 history>>
  /\ UNCHANGED <<idleSeen, beeps>>
  /\ UNCHANGED <<glowOnAt, faultAtAttempt, fuelCutAt, runFlagAtStop, rpmFell>>

\* one pass of the crank loop: delay(200), fault check, running check
engineStart_poll ==
  /\ pc = "engineStart_while"
  /\ MillisBefore(millis, crankMillis)
  /\ \E r \in RpmValues :
       /\ delay(POLL_DELAY, r)
       /\ observe(r)
       /\ LET t == millis + POLL_DELAY
              f == getRunFaults(t, gStartMillis, gCoolantTemp, gOilTemp,
                                gStartBattVolts, gOilPressure)
          IN /\ gFaultCode' = f
             /\ faultAtAttempt' =
                  IF /\ faultAtAttempt = 0
                     /\ \/ CoolantCond(gCoolantTemp)
                        \/ OilTempCond(gOilTemp)
                        \/ BatteryCond(gStartBattVolts)
                        \/ OilPressureCond(t, gStartMillis, gOilPressure)
                  THEN attempts
                  ELSE faultAtAttempt
             /\ IF f > 0
                THEN /\ gEngineState' = BitAnd(gEngineState, S_ENGINE_FAULT)
                     /\ pc' = "engineStart_exit"
                     /\ UNCHANGED <<gStartMillis, started>>
                ELSE IF isRunning(gEngineState, r)
                THEN /\ gEngineState' = BitAnd(BitAnd(gEngineState, S_ENGINE_RUNNING),
                                               S_ENGINE_WARMUP)
                     /\ gStartMillis' = t
                     /\ started' = TRUE
                     /\ pc' = "engineStart_exit"
                ELSE /\ pc' = "engineStart_while"
                     /\ UNCHANGED <<gEngineState, gStartMillis, started>>
  /\ UNCHANGED <<stack, port, sensors, gStartBattVolts, locals, preStartCond,
                 attempts, loadOffAt, stopKind, work>>
  /\ UNCHANGED beeps
  /\ UNCHANGED <<glowOnAt, crankAt, fuelCutAt, runFlagAtStop, rpmFell>>

\* the crank loop ends because millis() < crankMillis is false
engineStart_timeout ==
  /\ pc = "engineStart_while"
  /\ ~MillisBefore(millis, crankMillis)
  /\ pc' = "engineStart_exit"
  /\ UNCHANGED <<stack, millis, port, gEngineState, gStartMillis, gEngineRpm,
                 sensors, gStartBattVolts, gFaultCode, locals, history>>
  /\ UNCHANGED <<idleSeen, beeps>>
  /\ UNCHANGED <<glowOnAt, crankAt, faultAtAttempt, fuelCutAt, runFlagAtStop, rpmFell>>

\* the exit of engineStart() without the glow plug command
engineStart_exitGlowOn ==
  /\ pc = "engineStart_exit"
  /\ LET s == BitXor(gEngineState, S_ENGINE_STARTING)
     IN /\ gEngineState' = s
        /\ IF BitAnd(s, S_ENGINE_FAULT) # 0
           THEN /\ port' = [port EXCEPT ![STARTER_PORT] = S_OFF,
                                        ![ALTERNATATOR_LOAD_PORT] = S_OFF]
                /\ stopKind' = "immediate"
                /\ pc' = "engineImmediateStop"
                /\ UNCHANGED stack
           ELSE /\ port' = [port EXCEPT ![STARTER_PORT] = S_OFF]
                /\ return
                /\ UNCHANGED stopKind
  /\ crankMillis' = 0
  /\ glowOnAt' = -1
  /\ crankAt' = -1
  /\ UNCHANGED <<millis, gStartMillis, gEngineRpm, sensors, gStartBattVolts,
                 gFaultCode, startRetries, shutdownMillis, preStartCond,
                 attempts, started, loadOffAt, work>>
  /\ UNCHANGED <<idleSeen, beeps>>
  /\ UNCHANGED <<faultAtAttempt, fuelCutAt, runFlagAtStop, rpmFell>>

\* after the loop: starter and glow plugs off, the starting bit toggled
engineStart_exit ==
  /\ pc = "engineStart_exit"
  /\ LET s == BitXor(gEngineState, S_ENGINE_STARTING)
     IN /\ gEngineState' = s
        /\ IF BitAnd(s, S_ENGINE_FAULT) # 0
           THEN /\ port' = [port EXCEPT ![STARTER_PORT] = S_OFF,
                                        ![GLOW_PLUG_PORT] = S_OFF,
                                        ![ALTERNATATOR_LOAD_PORT] = S_OFF]
                /\ stopKind' = "immediate"
                /\ pc' = "engineImmediateStop"
                /\ UNCHANGED stack
           ELSE /\ port' = [port EXCEPT ![STARTER_PORT] = S_OFF,
                                        ![GLOW_PLUG_PORT] = S_OFF]
                /\ return
                /\ UNCHANGED stopKind
  /\ crankMillis' = 0
  /\ glowOnAt' = -1
  /\ crankAt' = -1
  /\ UNCHANGED <<millis, gStartMillis, gEngineRpm, sensors, gStartBattVolts,
                 gFaultCode, startRetries, shutdownMillis, preStartCond,
                 attempts, started, loadOffAt, work>>
  /\ UNCHANGED <<idleSeen, beeps>>
  /\ UNCHANGED <<faultAtAttempt, fuelCutAt, runFlagAtStop, rpmFell>>

(******************************* engineStop *******************************)

engineStop_loadOff ==
  /\ pc = "engineStop"
  /\ port' = [port EXCEPT ![ALTERNATATOR_LOAD_PORT] = S_OFF]
  /\ loadOffAt' = millis
  /\ pc' = "engineStop_delay"
  /\ UNCHANGED <<stack, millis, gEngineState, gStartMillis, gEngineRpm, sensors,
                 gStartBattVolts, gFaultCode, locals, preStartCond, attempts,
                 started, stopKind, work>>
  /\ UNCHANGED <<idleSeen, beeps>>
  /\ UNCHANGED <<glowOnAt, crankAt, faultAtAttempt, fuelCutAt, runFlagAtStop, rpmFell>>

\* engineStop() without the unloaded-idle wait
engineStop_noDelay ==
  /\ pc = "engineStop_delay"
  /\ stopKind' = "graceful"
  /\ pc' = "engineImmediateStop"
  /\ UNCHANGED <<stack, millis, port, gEngineState, gStartMillis, gEngineRpm,
                 sensors, gStartBattVolts, gFaultCode, locals, preStartCond,
                 attempts, started, loadOffAt, work, idleSeen, beeps>>
  /\ UNCHANGED <<glowOnAt, crankAt, faultAtAttempt, fuelCutAt, runFlagAtStop, rpmFell>>

engineStop_delay ==
  /\ pc = "engineStop_delay"
  /\ \E r \in RpmValues : delay(SHUTDOWN_DELAY, r)
  /\ stopKind' = "graceful"
  /\ pc' = "engineImmediateStop"
  /\ UNCHANGED <<stack, port, gEngineState, gStartMillis, sensors,
                 gStartBattVolts, gFaultCode, locals, preStartCond, attempts,
                 started, loadOffAt, work>>
  /\ UNCHANGED <<idleSeen, beeps>>
  /\ UNCHANGED <<glowOnAt, crankAt, faultAtAttempt, fuelCutAt, runFlagAtStop, rpmFell>>

(*************************** engineImmediateStop **************************)

engineImmediateStop_fuelOff ==
  /\ pc = "engineImmediateStop"
  /\ port' = [port EXCEPT ![FUEL_SOLENOID_PORT] = S_OFF]
  /\ shutdownMillis' = ToInt(millis + SHUTDOWN_WAIT)
  /\ fuelCutAt' = millis
  /\ runFlagAtStop' = (BitAnd(gEngineState, S_ENGINE_RUNNING) # 0)
  /\ rpmFell' = FALSE
  /\ started' = FALSE
  /\ pc' = "engineImmediateStop_while"
  /\ UNCHANGED <<stack, millis, gEngineState, gStartMillis, gEngineRpm, sensors,
                 gStartBattVolts, gFaultCode, startRetries, crankMillis,
                 preStartCond, attempts, loadOffAt, stopKind, work>>
  /\ UNCHANGED <<idleSeen, beeps>>
  /\ UNCHANGED <<glowOnAt, crankAt, faultAtAttempt>>

\* one pass of the shutdown loop: delay(200), then the isRunning() test
engineImmediateStop_poll ==
  /\ pc = "engineImmediateStop_while"
  /\ MillisBefore(millis, shutdownMillis)
  /\ \E r \in RpmValues :
       /\ delay(POLL_DELAY, r)
       /\ rpmFell' = (rpmFell \/ r < ENGINE_IDLE_RPM)
       /\ IF ~isRunning(gEngineState, r)
          THEN /\ gEngineState' = BitXor(gEngineState, S_ENGINE_RUNNING)
               /\ pc' = "engineImmediateStop_check"
          ELSE /\ pc' = "engineImmediateStop_while"
               /\ UNCHANGED gEngineState
  /\ UNCHANGED <<stack, port, gStartMillis, sensors, gStartBattVolts,
                 gFaultCode, locals, history>>
  /\ UNCHANGED <<idleSeen, beeps>>
  /\ UNCHANGED <<glowOnAt, crankAt, faultAtAttempt, fuelCutAt, runFlagAtStop>>

engineImmediateStop_timeout ==
  /\ pc = "engineImmediateStop_while"
  /\ ~MillisBefore(millis, shutdownMillis)
  /\ pc' = "engineImmediateStop_check"
  /\ UNCHANGED <<stack, millis, port, gEngineState, gStartMillis, gEngineRpm,
                 sensors, gStartBattVolts, gFaultCode, locals, history>>
  /\ UNCHANGED <<idleSeen, beeps>>
  /\ UNCHANGED <<glowOnAt, crankAt, faultAtAttempt, fuelCutAt, runFlagAtStop, rpmFell>>

\* if (gEngineState & S_ENGINE_RUNNING): enter the alarm loop, else return
engineImmediateStop_check ==
  /\ pc = "engineImmediateStop_check"
  /\ IF BitAnd(gEngineState, S_ENGINE_RUNNING) # 0
     THEN /\ pc' = "engineImmediateStop_alarm"
          /\ UNCHANGED <<stack, shutdownMillis, stopHistory>>
     ELSE /\ return
          /\ shutdownMillis' = 0
          /\ fuelCutAt' = -1
          /\ runFlagAtStop' = FALSE
          /\ rpmFell' = FALSE
  /\ UNCHANGED <<millis, port, gEngineState, gStartMillis, gEngineRpm, sensors,
                 gStartBattVolts, gFaultCode, startRetries, crankMillis,
                 history>>
  /\ UNCHANGED <<idleSeen, beeps>>
  /\ UNCHANGED <<glowOnAt, crankAt, faultAtAttempt>>

\* the test of the alarm loop reads the button; S_OFF means not pressed, and
\* the buzzer is switched on
engineImmediateStop_alarm ==
  /\ pc = "engineImmediateStop_alarm"
  /\ \E button \in {S_ON, S_OFF} :
       IF button = S_OFF
       THEN /\ beeps < MaxBeeps
            /\ beeps' = beeps + 1
            /\ port' = [port EXCEPT ![BUZZER_PORT] = HIGH]
            /\ pc' = "engineImmediateStop_beep"
            /\ UNCHANGED <<stack, shutdownMillis, stopHistory>>
       ELSE /\ return
            /\ beeps' = 0
            /\ shutdownMillis' = 0
            /\ fuelCutAt' = -1
            /\ runFlagAtStop' = FALSE
            /\ rpmFell' = FALSE
            /\ UNCHANGED port
  /\ UNCHANGED <<millis, gEngineState, gStartMillis, gEngineRpm, sensors,
                 gStartBattVolts, gFaultCode, startRetries, crankMillis,
                 history>>
  /\ UNCHANGED idleSeen
  /\ UNCHANGED <<glowOnAt, crankAt, faultAtAttempt>>

\* the rest of one pass of the alarm loop: delay(200), buzzer off, delay(200)
engineImmediateStop_beep ==
  /\ pc = "engineImmediateStop_beep"
  /\ \E r \in RpmValues : delay(POLL_DELAY + POLL_DELAY, r)
  /\ port' = [port EXCEPT ![BUZZER_PORT] = LOW]
  /\ pc' = "engineImmediateStop_alarm"
  /\ UNCHANGED <<stack, gEngineState, gStartMillis, sensors, gStartBattVolts,
                 gFaultCode, locals, history>>
  /\ UNCHANGED <<idleSeen, beeps>>
  /\ UNCHANGED <<glowOnAt, crankAt, faultAtAttempt, fuelCutAt, runFlagAtStop, rpmFell>>

(****************************** manageEngine ******************************)
\* manageEngine() with the warm-up exit not tested against the warm-up flag
manageEngine_anyState ==
  /\ pc = "manageEngine"
  /\ IF BitAnd(LogicalNot(gEngineState), S_ENGINE_RUNNING) # 0
     THEN /\ return
          /\ UNCHANGED <<port, gEngineState, sensors, gFaultCode>>
     ELSE \E sample \in AnalogSamples :
            LET op == sample.oilP
                ot == sample.oilT
                ct == sample.coolantT
                cf == sample.flow
                warm == \/ ct > MIN_COOLANT_TEMP
                        \/ millis > gStartMillis + WARMUP_PERIOD
                s1 == IF warm THEN BitXor(gEngineState, S_ENGINE_WARMUP)
                      ELSE gEngineState
                f == getRunFaults(millis, gStartMillis, ct, ot,
                                  gStartBattVolts, op)
            IN /\ gOilPressure' = op
               /\ gOilTemp' = ot
               /\ gCoolantTemp' = ct
               /\ gCoolantFlow' = cf
               /\ port' = IF warm
                          THEN [port EXCEPT ![ALTERNATATOR_LOAD_PORT] = S_ON,
                                            ![COOLANT_PUMP_PORT] = S_ON]
                          ELSE port
               /\ gFaultCode' = f
               /\ IF f # 0
                  THEN /\ gEngineState' = BitAnd(s1, S_ENGINE_FAULT)
                       /\ call("engineStop", "manageEngine_ret")
                  ELSE /\ gEngineState' = s1
                       /\ pc' = "manageEngine_ret"
                       /\ UNCHANGED stack
  /\ UNCHANGED <<millis, gStartMillis, gEngineRpm, gStartBattVolts, locals,
                 history>>
  /\ UNCHANGED <<idleSeen, beeps>>
  /\ UNCHANGED <<glowOnAt, crankAt, faultAtAttempt, fuelCutAt, runFlagAtStop, rpmFell>>

\* the whole supervision step up to the call of engineStop()
manageEngine ==
  /\ pc = "manageEngine"
  /\ IF BitAnd(LogicalNot(gEngineState), S_ENGINE_RUNNING) # 0
     THEN /\ return
          /\ UNCHANGED <<port, gEngineState, sensors, gFaultCode>>
     ELSE \E sample \in AnalogSamples :
            LET op == sample.oilP
                ot == sample.oilT
                ct == sample.coolantT
                cf == sample.flow
                warm == /\ BitAnd(gEngineState, S_ENGINE_WARMUP) # 0
                        /\ \/ ct > MIN_COOLANT_TEMP
                           \/ millis > gStartMillis + WARMUP_PERIOD
                s1 == IF warm THEN BitXor(gEngineState, S_ENGINE_WARMUP)
                      ELSE gEngineState
                f == getRunFaults(millis, gStartMillis, ct, ot,
                                  gStartBattVolts, op)
            IN /\ gOilPressure' = op
               /\ gOilTemp' = ot
               /\ gCoolantTemp' = ct
               /\ gCoolantFlow' = cf
               /\ port' = IF warm
                          THEN [port EXCEPT ![ALTERNATATOR_LOAD_PORT] = S_ON,
                                            ![COOLANT_PUMP_PORT] = S_ON]
                          ELSE port
               /\ gFaultCode' = f
               /\ IF f # 0
                  THEN /\ gEngineState' = BitAnd(s1, S_ENGINE_FAULT)
                       /\ call("engineStop", "manageEngine_ret")
                  ELSE /\ gEngineState' = s1
                       /\ pc' = "manageEngine_ret"
                       /\ UNCHANGED stack
  /\ UNCHANGED <<millis, gStartMillis, gEngineRpm, gStartBattVolts, locals,
                 history>>
  /\ UNCHANGED <<idleSeen, beeps>>
  /\ UNCHANGED <<glowOnAt, crankAt, faultAtAttempt, fuelCutAt, runFlagAtStop, rpmFell>>

manageEngine_ret ==
  /\ pc = "manageEngine_ret"
  /\ return
  /\ UNCHANGED <<millis, port, gEngineState, gStartMillis, gEngineRpm, sensors,
                 gStartBattVolts, gFaultCode, locals, history>>
  /\ UNCHANGED <<idleSeen, beeps>>
  /\ UNCHANGED <<glowOnAt, crankAt, faultAtAttempt, fuelCutAt, runFlagAtStop, rpmFell>>

(********************************** loop **********************************)
\* work of the given weight is taken up
dispatch(weight) ==
  /\ work + weight <= MaxWork
  /\ work' = work + weight
  /\ UNCHANGED <<loadOffAt, stopKind>>

\* the called function has returned to setup() or loop(): the next pass of
\* loop() begins and the history of the finished call is dropped
loop_end ==
  /\ pc = "loop_end"
  /\ pc' = "loop"
  /\ preStartCond' = FALSE
  /\ attempts' = 0
  /\ idleSeen' = FALSE
  /\ loadOffAt' = -1
  /\ stopKind' = "none"
  /\ faultAtAttempt' = 0
  /\ UNCHANGED <<stack, millis, port, gEngineState, gStartMillis, gEngineRpm,
                 sensors, gStartBattVolts, gFaultCode, locals, started,
                 work, beeps>>
  /\ UNCHANGED <<glowOnAt, crankAt, fuelCutAt, runFlagAtStop, rpmFell>>

\* loop(): a start request
loop_start ==
  /\ pc = "loop"
  /\ dispatch(2)
  /\ call("start", "loop_end")
  /\ UNCHANGED <<millis, port, gEngineState, gStartMillis, gEngineRpm, sensors,
                 gStartBattVolts, gFaultCode, locals, preStartCond, attempts,
                 started>>
  /\ UNCHANGED <<idleSeen, beeps>>
  /\ UNCHANGED <<glowOnAt, crankAt, faultAtAttempt, fuelCutAt, runFlagAtStop, rpmFell>>

\* loop(): a stop request
loop_stop ==
  /\ pc = "loop"
  /\ dispatch(2)
  /\ call("engineStop", "loop_end")
  /\ UNCHANGED <<millis, port, gEngineState, gStartMillis, gEngineRpm, sensors,
                 gStartBattVolts, gFaultCode, locals, preStartCond, attempts,
                 started>>
  /\ UNCHANGED <<idleSeen, beeps>>
  /\ UNCHANGED <<glowOnAt, crankAt, faultAtAttempt, fuelCutAt, runFlagAtStop, rpmFell>>

\* loop(): check parameters within spec
loop_manage ==
  /\ pc = "loop"
  /\ dispatch(1)
  /\ call("manageEngine", "loop_end")
  /\ UNCHANGED <<millis, port, gEngineState, gStartMillis, gEngineRpm, sensors,
                 gStartBattVolts, gFaultCode, locals, preStartCond, attempts,
                 started>>
  /\ UNCHANGED <<idleSeen, beeps>>
  /\ UNCHANGED <<glowOnAt, crankAt, faultAtAttempt, fuelCutAt, runFlagAtStop, rpmFell>>

\* loop(): no request, time passes
loop_idle ==
  /\ pc = "loop"
  /\ work < MaxWork
  /\ \E r \in RpmValues : delay(LoopTick, r)
  /\ UNCHANGED <<pc, stack, port, gEngineState, gStartMillis, sensors,
                 gStartBattVolts, gFaultCode, locals, history>>
  /\ UNCHANGED <<idleSeen, beeps>>
  /\ UNCHANGED <<glowOnAt, crankAt, faultAtAttempt, fuelCutAt, runFlagAtStop, rpmFell>>

\* loop(): the acquisition refreshes the starter battery voltage and the rpm
loop_acquire ==
  /\ pc = "loop"
  /\ work < MaxWork
  /\ gStartBattVolts' \in BattValues
  /\ gEngineRpm' \in RpmValues
  /\ UNCHANGED <<pc, stack, millis, port, gEngineState, gStartMillis, sensors,
                 gFaultCode, locals, history>>
  /\ UNCHANGED <<idleSeen, beeps>>
  /\ UNCHANGED <<glowOnAt, crankAt, faultAtAttempt, fuelCutAt, runFlagAtStop, rpmFell>>

Next ==
  \/ setup
  \/ start_begin
  \/ start_for
  \/ start_check
  \/ start_end
  \/ engineStart_buzzer
  \/ engineStart_fuel
  \/ engineStart_glowOn
  \/ engineStart_preheat
  \/ engineStart_crank
  \/ engineStart_poll
  \/ engineStart_timeout
  \/ engineStart_exit
  \/ engineStop_loadOff
  \/ engineStop_delay
  \/ engineImmediateStop_fuelOff
  \/ engineImmediateStop_poll
  \/ engineImmediateStop_timeout
  \/ engineImmediateStop_check
  \/ engineImmediateStop_alarm
  \/ engineImmediateStop_beep
  \/ manageEngine
  \/ manageEngine_ret
  \/ loop_end
  \/ loop_start
  \/ loop_stop
  \/ loop_manage
  \/ loop_idle
  \/ loop_acquire

Spec == Init /\ [][Next]_vars

TypeOK ==
  /\ millis \in 0..MaxMillis
  /\ gEngineState \in 0..7
  /\ \A p \in OutputPorts : port[p] \in {INPUT, LOW, HIGH}
  /\ Len(stack) <= 2

(****************************** properties ********************************)
\* the actuator behind port p is energized: relays are active low, the
\* buzzer is active high
Energized(p) == IF p = BUZZER_PORT THEN port[p] = HIGH ELSE port[p] = S_ON

Relays == OutputPorts \ {BUZZER_PORT}

FaultActive == BitAnd(gEngineState, S_ENGINE_FAULT) # 0

\* a call of start() is executing
StartInProgress ==
  \/ pc \in {"start", "start_for", "start_check", "start_end"}
  \/ \E i \in 1..Len(stack) : stack[i] = "start_check"

\* one of the four rule conditions of the fault evaluator holds now
RunFaultCondition ==
  \/ CoolantCond(gCoolantTemp)
  \/ OilTempCond(gOilTemp)
  \/ BatteryCond(gStartBattVolts)
  \/ OilPressureCond(millis, gStartMillis, gOilPressure)

\* C1: a start() entered while a pre-start fault condition holds is rejected:
\* past the pre-start check the state is Stopped, the fault code is non-zero
\* and no actuator is energized at any point of the call.
C1_PreStartGate ==
  (StartInProgress /\ pc # "start" /\ preStartCond)
    => /\ gEngineState = S_ENGINE_STOPPED
       /\ gFaultCode # 0
       /\ \A p \in OutputPorts : ~Energized(p)

\* C2: whenever the coolant temperature is at or above MAX_COOLANT_TEMP the
\* fault evaluator, applied to the current values, returns a set that
\* contains E_COOLANT_TEMP_HIGH.
C2_CoolantOverTempReported ==
  gCoolantTemp >= MAX_COOLANT_TEMP
    => BitAnd(getRunFaults(millis, gStartMillis, gCoolantTemp, gOilTemp,
                           gStartBattVolts, gOilPressure),
              E_COOLANT_TEMP_HIGH) = E_COOLANT_TEMP_HIGH

\* C3: a start() without pre-start fault during which the rpm never reached
\* ENGINE_IDLE_RPM ends after exactly START_RETRIES crank attempts, in the
\* Fault state.
C3_RetryExhaustion ==
  (pc = "start_end" /\ ~preStartCond /\ ~idleSeen)
    => /\ attempts = START_RETRIES
       /\ FaultActive

\* C4: once a crank attempt has seen the engine run, engineStart() leaves the
\* machine in Warmup with Starting cleared, gStartMillis holds the clock of
\* that moment, and no Fault is entered.
C4_SuccessfulCrank ==
  (pc \in {"start_check", "start_end"} /\ started)
    => /\ BitAnd(gEngineState, S_ENGINE_WARMUP) # 0
       /\ BitAnd(gEngineState, S_ENGINE_STARTING) = 0
       /\ gStartMillis = millis
       /\ attempts <= START_RETRIES
       /\ ~FaultActive

\* C5: a supervision step taken after a successful start at which a health
\* fault condition holds ends in the Fault state, after the graceful stop
\* sequence has run.
C5_RunFaultGracefulStop ==
  (pc = "manageEngine_ret" /\ started /\ RunFaultCondition)
    => /\ FaultActive
       /\ stopKind = "graceful"

\* C6: the engine state is always exactly one of Stopped, Starting, Warmup,
\* Running, Fault.
C6_OneStateActive ==
  gEngineState \in {S_ENGINE_STOPPED, S_ENGINE_RUNNING, S_ENGINE_STARTING,
                    S_ENGINE_WARMUP, S_ENGINE_FAULT}

\* C7: whenever the state is Stopped and no start() is executing, fuel
\* solenoid, glow plugs, starter, coolant pump and alternator load are off.
C7_StoppedAllOff ==
  (gEngineState = S_ENGINE_STOPPED /\ ~StartInProgress)
    => \A p \in Relays : ~Energized(p)

\* The fault bits are never set in gEngineState: the Fault state that C8 and
\* C9 speak about is not reached.
FaultNeverActive == ~FaultActive

\* C10: in every execution of engineStop() the fuel solenoid is not written
\* before the load-off command, and the fuel cut comes at least
\* SHUTDOWN_DELAY after the load-off command, with the load not energized.
C10_GracefulStopOrder ==
  [][ /\ (pc \in {"engineStop", "engineStop_delay"})
          => port'[FUEL_SOLENOID_PORT] = port[FUEL_SOLENOID_PORT]
      /\ (pc = "engineImmediateStop" /\ stopKind = "graceful"
            /\ pc' = "engineImmediateStop_while")
          => /\ loadOffAt >= 0
             /\ millis - loadOffAt >= SHUTDOWN_DELAY
             /\ ~Energized(ALTERNATATOR_LOAD_PORT)
             /\ port'[FUEL_SOLENOID_PORT] = S_OFF ]_vars

\* a graceful stop of an engine that start() had started has cut the fuel
C10_Witness ==
  /\ pc = "engineImmediateStop_while"
  /\ stopKind = "graceful"
  /\ gStartMillis > 0
  /\ port[FUEL_SOLENOID_PORT] = S_OFF
  /\ millis - loadOffAt >= SHUTDOWN_DELAY

\* the shutdown wait of the stop sequence in progress is over
StopWaitOver ==
  /\ pc = "engineImmediateStop_check"
  /\ fuelCutAt >= 0

InAlarmLoop == pc \in {"engineImmediateStop_alarm", "engineImmediateStop_beep"}

\* C11: when every poll of a full SHUTDOWN_WAIT window after the fuel cut
\* read an rpm at or above ENGINE_IDLE_RPM, the stop sequence goes on to the
\* alarm loop, whatever the running flag was at the fuel cut; and in the
\* alarm loop the fuel stays cut.
C11_UnresolvedStopAlarm ==
  /\ (StopWaitOver /\ ~rpmFell /\ millis - fuelCutAt >= SHUTDOWN_WAIT)
       => BitAnd(gEngineState, S_ENGINE_RUNNING) # 0
  /\ InAlarmLoop => port[FUEL_SOLENOID_PORT] = S_OFF

\* C12: when a poll of the shutdown wait read an rpm below ENGINE_IDLE_RPM
\* within SHUTDOWN_WAIT of the fuel cut, the shutdown wait ends with the
\* running flag clear, so that the alarm loop is not entered, whatever the
\* running flag was at the fuel cut.
C12_ConfirmedStop ==
  (StopWaitOver /\ rpmFell /\ millis - fuelCutAt <= SHUTDOWN_WAIT)
    => BitAnd(gEngineState, S_ENGINE_RUNNING) = 0

\* C13: the starter is never energized for longer than START_CRANK_TIME plus
\* one poll interval in a crank attempt, and the shutdown wait never lasts
\* longer than SHUTDOWN_WAIT plus one poll interval, for every clock value at
\* which the window was opened.
C13_BoundedCrankWindow ==
  /\ (crankAt >= 0 /\ Energized(STARTER_PORT))
       => millis - crankAt <= START_CRANK_TIME + POLL_DELAY
  /\ (pc = "engineImmediateStop_while" /\ fuelCutAt >= 0)
       => millis - fuelCutAt <= SHUTDOWN_WAIT + POLL_DELAY

\* C14: at every time earlier than START_OIL_P_PERIOD after the run timer
\* gStartMillis was set, the low oil pressure rule does not fire and the
\* fault evaluator, applied to the current values, does not report
\* E_LOW_OIL_RPRESSURE, whatever the oil pressure is.
C14_OilPressureGrace ==
  (gStartMillis > 0 /\ millis < gStartMillis + START_OIL_P_PERIOD)
    => /\ ~OilPressureCond(millis, gStartMillis, gOilPressure)
       /\ BitAnd(getRunFaults(millis, gStartMillis, gCoolantTemp, gOilTemp,
                              gStartBattVolts, gOilPressure),
                 E_LOW_OIL_RPRESSURE) # E_LOW_OIL_RPRESSURE

\* a supervision step inside the grace period has read an oil pressure of 0
\* and the evaluator has reported nothing
C14_Witness ==
  /\ pc = "manageEngine_ret"
  /\ started
  /\ gStartMillis > 0
  /\ millis < gStartMillis + START_OIL_P_PERIOD
  /\ gOilPressure = 0
  /\ gFaultCode = 0

\* C15: a supervision step taken after a successful start, with no health
\* fault condition and with coolant temperature above MIN_COOLANT_TEMP or the
\* warm-up period over, leaves the machine Running with the alternator load
\* and the coolant pump both energized; and whenever the running flag is set
\* the two are energized together or not at all.
C15_WarmupExit ==
  /\ ( /\ pc = "manageEngine_ret"
       /\ started
       /\ ~RunFaultCondition
       /\ \/ gCoolantTemp > MIN_COOLANT_TEMP
          \/ millis > gStartMillis + WARMUP_PERIOD )
       => /\ BitAnd(gEngineState, S_ENGINE_RUNNING) # 0
          /\ BitAnd(gEngineState, S_ENGINE_WARMUP) = 0
          /\ Energized(ALTERNATATOR_LOAD_PORT)
          /\ Energized(COOLANT_PUMP_PORT)
  /\ BitAnd(gEngineState, S_ENGINE_RUNNING) # 0
       => (Energized(ALTERNATATOR_LOAD_PORT) <=> Energized(COOLANT_PUMP_PORT))

\* a crank attempt of engineStart() is in progress
CrankAttemptInProgress ==
  pc \in {"engineStart", "engineStart_fuel", "engineStart_glowOn",
          "engineStart_glow", "engineStart_starter", "engineStart_while",
          "engineStart_exit"}

\* C16: whenever the starting or the warm-up flag is set, or a crank attempt
\* is in progress, the alternator load and the coolant pump are both off, in
\* a first start and in a later start after an earlier run alike.
C16_LoadPumpOffUntilRunning ==
  ( \/ BitAnd(gEngineState, S_ENGINE_STARTING) # 0
    \/ BitAnd(gEngineState, S_ENGINE_WARMUP) # 0
    \/ CrankAttemptInProgress )
    => /\ ~Energized(ALTERNATATOR_LOAD_PORT)
       /\ ~Energized(COOLANT_PUMP_PORT)

\* a start requested from loop() after an earlier run is cranking
C16_Witness ==
  /\ pc = "engineStart_while"
  /\ work > 0
  /\ gStartMillis > 0
  /\ Energized(STARTER_PORT)
  /\ ~Energized(ALTERNATATOR_LOAD_PORT)
  /\ ~Energized(COOLANT_PUMP_PORT)

\* a poll of a crank attempt of the current start() has found a health
\* fault condition
FaultFoundAtPoll == faultAtAttempt > 0

\* C17: once a poll of the crank window has found a health fault condition,
\* cranking does not go on: the loop is left in the Fault state, and the
\* attempt ends through the immediate stop sequence with the fuel cut.
C17_FaultDuringStarting ==
  /\ pc = "engineStart_while" => ~FaultFoundAtPoll
  /\ (pc = "engineStart_exit" /\ FaultFoundAtPoll) => FaultActive
  /\ (pc = "start_check" /\ FaultFoundAtPoll)
       => /\ stopKind = "immediate"
          /\ ~Energized(FUEL_SOLENOID_PORT)
          /\ ~Energized(ALTERNATATOR_LOAD_PORT)

\* C18: after a crank attempt in which a poll found a health fault
\* condition, start() makes no further attempt: the attempt count stays at
\* that attempt, so fuel solenoid, glow plugs and starter are not energized
\* again in that start sequence.
C18_NoRetryAfterHealthFault ==
  (StartInProgress /\ FaultFoundAtPoll) => attempts = faultAtAttempt

\* the fault kind code is present in the fault set f
Reported(f, code) == BitAnd(f, code) = code

\* C19: the fault evaluator, applied to the current values at any point past
\* setup(), returns 0 if and only if none of its four rule conditions holds,
\* and each fault kind is present in its result exactly when the condition
\* of that kind holds.
C19_FaultSetExact ==
  LET f == getRunFaults(millis, gStartMillis, gCoolantTemp, gOilTemp,
                        gStartBattVolts, gOilPressure)
  IN pc # "setup" =>
       /\ (f = 0) <=> ~RunFaultCondition
       /\ Reported(f, E_COOLANT_TEMP_HIGH) <=> CoolantCond(gCoolantTemp)
       /\ Reported(f, E_OIL_TEMP_HIGH) <=> OilTempCond(gOilTemp)
       /\ Reported(f, E_BATTERY_LOW) <=> BatteryCond(gStartBattVolts)
       /\ Reported(f, E_LOW_OIL_RPRESSURE)
            <=> OilPressureCond(millis, gStartMillis, gOilPressure)

\* C20: in every crank attempt the glow plugs are switched on with the fuel
\* solenoid already on, the starter is switched on only with fuel and glow
\* plugs on and at least START_GLOW_PERIOD after the glow plug command, and
\* the starter is never energized while the fuel is off.
C20_StartOrdering ==
  [][ /\ (port[GLOW_PLUG_PORT] # S_ON /\ port'[GLOW_PLUG_PORT] = S_ON)
          => /\ port[FUEL_SOLENOID_PORT] = S_ON
             /\ port[STARTER_PORT] # S_ON
      /\ (port[STARTER_PORT] # S_ON /\ port'[STARTER_PORT] = S_ON)
          => /\ port[FUEL_SOLENOID_PORT] = S_ON
             /\ port[GLOW_PLUG_PORT] = S_ON
             /\ glowOnAt >= 0
             /\ millis - glowOnAt >= START_GLOW_PERIOD
      /\ port'[STARTER_PORT] = S_ON => port'[FUEL_SOLENOID_PORT] = S_ON ]_vars

\* the second crank attempt of a start() has energized the starter after the
\* pre-heat
C20_Witness ==
  /\ pc = "engineStart_while"
  /\ attempts = 2
  /\ Energized(FUEL_SOLENOID_PORT)
  /\ Energized(GLOW_PLUG_PORT)
  /\ Energized(STARTER_PORT)
  /\ crankAt - glowOnAt = START_GLOW_PERIOD

\* C21: a supervision step entered with the running flag of gEngineState
\* clear takes no action: it changes no sensor value, no output pin, not the
\* engine state and not the fault code.
C21_SupervisionGuard ==
  [][ (pc = "manageEngine" /\ BitAnd(gEngineState, S_ENGINE_RUNNING) = 0)
        => UNCHANGED <<sensors, port, gEngineState, gFaultCode>> ]_vars

\* C22: whenever the starter motor or the glow plugs are energized, the
\* starting flag is set in gEngineState, on the first crank attempt and on
\* every retry.
C22_StartingWhileCranking ==
  (Energized(STARTER_PORT) \/ Energized(GLOW_PLUG_PORT))
    => BitAnd(gEngineState, S_ENGINE_STARTING) # 0

\* C23: at every state outside a crank attempt of engineStart(), the rest
\* between attempts and the stop sequences included, the starter motor and
\* the glow plugs are both off; every exit path of the attempt switches
\* them off.
C23_StarterGlowOffOutsideCrank ==
  ~CrankAttemptInProgress
    => /\ ~Energized(STARTER_PORT)
       /\ ~Energized(GLOW_PLUG_PORT)

\* a crank attempt has run into its timeout and start() has rested before
\* the retry
C23_Witness ==
  /\ pc = "start_for"
  /\ attempts = 1
  /\ ~idleSeen
  /\ millis >= START_GLOW_PERIOD + START_CRANK_TIME + START_RETRY_REST
  /\ port[STARTER_PORT] = S_OFF
  /\ port[GLOW_PLUG_PORT] = S_OFF

====
